---- MODULE Spec2Model ----
(***************************************************************************)
(* The PirateBay source adapter of seadex-extension, in its three source   *)
(* variants:                                                               *)
(*   "piratebaysrc"  src/shiru/sources/piratebaysrc/index.js               *)
(*   "part_000"      src/unnamed/part_000  (mediaType-aware query)         *)
(*   "part_001"      src/unnamed/part_001  (parsers, no per-item catch)    *)
(*                                                                         *)
(* Strings are sequences of one-character strings, so that the regular     *)
(* expressions, trim, padStart and the parsers are computed, not assumed.  *)
(* JavaScript values are tagged records.  A call is a short asynchronous   *)
(* chain: entry point -> await fetch -> await res.json() -> normalization. *)
(*                                                                         *)
(* index.js line 95 holds a stray backslash before "?.[1]"; the model      *)
(* reads the line as the other two variants write it (part_000 line 78).   *)
(***************************************************************************)
EXTENDS Integers, Sequences, FiniteSets

VARIABLES
    variant,    \* which source file is the running adapter
    engine,     \* the runtime's Date parser: "strict" (ISO only) or "legacy"
    now,        \* the clock read by new Date()
    pc,         \* position of the call: idle, fetching, decoding, probing, done
    entry,      \* entry point of the call: single, batch, movie, validate
    req,        \* the request object handed to the entry point
    query,      \* the search string built by _search
    url,        \* the argument of fetch
    fetchCalls, \* how often fetch was invoked during the call
    wire,       \* what the transport did: fetch and json outcomes
    data,       \* the decoded response body
    calledAt,   \* the clock when the normalization ran
    outcome,    \* how the entry point's promise settled
    prev        \* the previous call of the same caller: its data and outcome

vars == <<variant, engine, now, pc, entry, req, query, url, fetchCalls, wire,
          data, calledAt, outcome, prev>>

(***************************************************************************)
(* Bounds of the model.                                                    *)
(***************************************************************************)
MaxTitleLen == 3
MaxPrefix == 2
MaxFill == 31
MaxNow == 2

(***************************************************************************)
(* Characters.                                                             *)
(***************************************************************************)
Digits == {"0", "1", "2", "3", "4", "5", "6", "7", "8", "9"}

Lower == {"a", "b", "c", "d", "e", "f", "g", "h", "i", "j", "k", "l", "m",
          "n", "o", "p", "q", "r", "s", "t", "u", "v", "w", "x", "y", "z"}

Upper == {"A", "B", "C", "D", "E", "F", "G", "H", "I", "J", "K", "L", "M",
          "N", "O", "P", "Q", "R", "S", "T", "U", "V", "W", "X", "Y", "Z"}

Letters == Lower \cup Upper

\* [A-Fa-f0-9]
HexChars == Digits \cup {"a", "b", "c", "d", "e", "f", "A", "B", "C", "D", "E", "F"}

\* \w
WordChars == Letters \cup Digits \cup {"_"}

\* \s (also the characters String.prototype.trim removes)
Whitespace == {" ", "\t", "\n"}

DigitVal(c) ==
    CASE c = "0" -> 0 [] c = "1" -> 1 [] c = "2" -> 2 [] c = "3" -> 3
      [] c = "4" -> 4 [] c = "5" -> 5 [] c = "6" -> 6 [] c = "7" -> 7
      [] c = "8" -> 8 [] c = "9" -> 9

DigitChar(d) ==
    CASE d = 0 -> "0" [] d = 1 -> "1" [] d = 2 -> "2" [] d = 3 -> "3"
      [] d = 4 -> "4" [] d = 5 -> "5" [] d = 6 -> "6" [] d = 7 -> "7"
      [] d = 8 -> "8" [] d = 9 -> "9"

(***************************************************************************)
(* String helpers.                                                         *)
(***************************************************************************)
RECURSIVE TrimStart(_)
TrimStart(s) ==
    IF s # <<>> /\ Head(s) \in Whitespace THEN TrimStart(Tail(s)) ELSE s

RECURSIVE TrimEnd(_)
TrimEnd(s) ==
    IF s # <<>> /\ s[Len(s)] \in Whitespace
    THEN TrimEnd(SubSeq(s, 1, Len(s) - 1))
    ELSE s

\* String.prototype.trim
Trim(s) == TrimEnd(TrimStart(s))

\* Number.prototype.toString of a non-negative integer
RECURSIVE NumberToString(_)
NumberToString(n) ==
    IF n < 10 THEN <<DigitChar(n)>>
    ELSE NumberToString(n \div 10) \o <<DigitChar(n % 10)>>

\* String.prototype.padStart(2, "0")
PadStart2(s) == IF Len(s) < 2 THEN [i \in 1..(2 - Len(s)) |-> "0"] \o s ELSE s

\* the value of a string of decimal digits
RECURSIVE DigitsVal(_)
DigitsVal(s) ==
    IF s = <<>> THEN 0
    ELSE 10 * DigitsVal(SubSeq(s, 1, Len(s) - 1)) + DigitVal(s[Len(s)])

AllIn(s, C) == \A i \in 1..Len(s) : s[i] \in C

\* length of the longest prefix of s made of characters of C
RECURSIVE PrefixLen(_, _)
PrefixLen(s, C) ==
    IF s # <<>> /\ Head(s) \in C THEN 1 + PrefixLen(Tail(s), C) ELSE 0

Drop(s, n) == SubSeq(s, n + 1, Len(s))

Take(s, n) == SubSeq(s, 1, IF n < Len(s) THEN n ELSE Len(s))

(***************************************************************************)
(* JavaScript values.                                                      *)
(***************************************************************************)
Undef == [t |-> "undefined"]
Null == [t |-> "null"]
NaN == [t |-> "nan"]
Num(n) == [t |-> "number", n |-> n]
Str(s) == [t |-> "string", s |-> s]
Bool(b) == [t |-> "boolean", b |-> b]
Arr(items) == [t |-> "array", items |-> items]

\* an exception escaping the evaluated expression
Throw == [t |-> "throw"]

\* ToBoolean, as used by !x, x || y and if (x)
Truthy(v) ==
    CASE v.t \in {"undefined", "null", "nan"} -> FALSE
      [] v.t = "number" -> v.n # 0
      [] v.t = "string" -> v.s # <<>>
      [] v.t = "boolean" -> v.b
      [] OTHER -> TRUE

\* Number(v) for the values JSON can hold; a numeric string here is a run of digits
ToNumber(v) ==
    CASE v.t = "number" -> v
      [] v.t = "nan" -> NaN
      [] v.t = "undefined" -> NaN
      [] v.t = "null" -> Num(0)
      [] v.t = "boolean" -> Num(IF v.b THEN 1 ELSE 0)
      [] v.t = "string" ->
            LET s == Trim(v.s) IN
            IF AllIn(s, Digits) THEN Num(DigitsVal(s)) ELSE NaN
      [] OTHER -> NaN

(***************************************************************************)
(* Query construction.                                                     *)
(***************************************************************************)
\* title.replace(/[^\w\s-]/g, " ")
ReplacePunct(title) ==
    [i \in 1..Len(title) |->
        IF title[i] \in WordChars \cup Whitespace \cup {"-"} THEN title[i] ELSE " "]

\* a sanitizer that forgets .trim()
SanitizeUntrimmed(title) == ReplacePunct(title)

\* title.replace(/[^\w\s-]/g, " ").trim()
Sanitize(title) == Trim(ReplacePunct(title))

\* ` ${episode.toString().padStart(2, "0")}`
EpisodeSuffix(episode) ==
    IF Truthy(episode) THEN <<" ">> \o PadStart2(NumberToString(episode.n)) ELSE <<>>

\* case 'movie'
MovieSuffix(opts) ==
    IF Truthy(opts.year) THEN <<" ">> \o NumberToString(opts.year.n) ELSE <<>>

\* a 'tv' case without the season 1 default
TvSuffixNoDefault(opts) ==
    IF Truthy(opts.season) /\ Truthy(opts.episode)
    THEN <<" ", "S">> \o PadStart2(NumberToString(opts.season.n))
            \o <<"E">> \o PadStart2(NumberToString(opts.episode.n))
    ELSE <<>>

\* case 'tv'
TvSuffix(opts) ==
    IF Truthy(opts.season) /\ Truthy(opts.episode)
    THEN <<" ", "S">> \o PadStart2(NumberToString(opts.season.n))
            \o <<"E">> \o PadStart2(NumberToString(opts.episode.n))
    ELSE IF Truthy(opts.episode)
    THEN <<" ", "S", "0", "1", "E">> \o PadStart2(NumberToString(opts.episode.n))
    ELSE <<>>

\* the switch on mediaType of part_000; the other variants know the episode only
MediaSuffix(v, opts) ==
    IF v = "part_000"
    THEN CASE opts.mediaType = Str(<<"m", "o", "v", "i", "e">>) -> MovieSuffix(opts)
           [] opts.mediaType = Str(<<"t", "v">>) -> TvSuffix(opts)
           [] OTHER -> EpisodeSuffix(opts.episode)
    ELSE EpisodeSuffix(opts.episode)

BuildQuery(v, title, opts) == Sanitize(title) \o MediaSuffix(v, opts)

\* encodeURIComponent on the characters a sanitized query can hold
EncodeChar(c) ==
    CASE c = " " -> <<"%", "2", "0">>
      [] c = "\t" -> <<"%", "0", "9">>
      [] c = "\n" -> <<"%", "0", "A">>
      [] OTHER -> <<c>>

RECURSIVE EncodeURIComponent(_)
EncodeURIComponent(s) ==
    IF s = <<>> THEN <<>> ELSE EncodeChar(Head(s)) \o EncodeURIComponent(Tail(s))

\* this.base, kept symbolic
Base == <<"https://torrent-search-api-livid.vercel.app/api/piratebay/">>

(***************************************************************************)
(* _parseSize.                                                             *)
(***************************************************************************)
\* sizeStr.trim().match(/^([\d.]+)\s*([A-Za-z]+)$/): the two groups, or no match
SizeMatch(s) ==
    LET t == Trim(s)
        n == PrefixLen(t, Digits \cup {"."})
        rest == TrimStart(Drop(t, n))
    IN  IF n >= 1 /\ rest # <<>> /\ AllIn(rest, Letters)
        THEN [matched |-> TRUE, number |-> Take(t, n), unit |-> rest]
        ELSE [matched |-> FALSE]

\* parseFloat of a run of digits and dots: the fraction num / den, or NaN
ParseFloat(s) ==
    LET ni == PrefixLen(s, Digits)
        whole == Take(s, ni)
        after == Drop(s, ni)
        frac == IF after # <<>> /\ Head(after) = "."
                THEN Take(Tail(after), PrefixLen(Tail(after), Digits))
                ELSE <<>>
    IN  IF whole = <<>> /\ frac = <<>> THEN NaN
        ELSE [t |-> "fraction", num |-> DigitsVal(whole \o frac), den |-> 10 ^ Len(frac)]

\* names every object literal inherits: units[unit] is then a function or an object
InheritedNames ==
    { <<"v", "a", "l", "u", "e", "O", "f">>,
      <<"t", "o", "S", "t", "r", "i", "n", "g">>,
      <<"c", "o", "n", "s", "t", "r", "u", "c", "t", "o", "r">> }

\* units[unit] || 1; 0 stands for a value that is no number
Multiplier(unit) ==
    CASE unit = <<"B">> -> 1
      [] unit = <<"K", "i", "B">> -> 1024
      [] unit = <<"M", "i", "B">> -> 1024 * 1024
      [] unit = <<"G", "i", "B">> -> 1024 * 1024 * 1024
      [] unit = <<"T", "i", "B">> -> 1024 * 1024 * 1024 * 1024
      [] unit = <<"K", "B">> -> 1000
      [] unit = <<"M", "B">> -> 1000 * 1000
      [] unit = <<"G", "B">> -> 1000 * 1000 * 1000
      [] unit = <<"T", "B">> -> 1000 * 1000 * 1000 * 1000
      [] unit \in InheritedNames -> 0
      [] OTHER -> 1

\* Math.floor(value * multiplier)
FloorTimes(value, unit) ==
    IF value = NaN \/ unit \in InheritedNames THEN NaN
    ELSE Num((value.num * Multiplier(unit)) \div value.den)

\* a _parseSize that skips the isNaN(value) test
ParseSizeNoNaNTest(v) ==
    IF ~Truthy(v) \/ v.t # "string" THEN Num(0)
    ELSE LET m == SizeMatch(v.s) IN
         IF ~m.matched THEN Num(0)
         ELSE FloorTimes(ParseFloat(m.number), m.unit)

\* _parseSize of index.js: guarded by typeof and isNaN, wrapped in try/catch
ParseSizeGuarded(v) ==
    IF ~Truthy(v) \/ v.t # "string" THEN Num(0)
    ELSE LET m == SizeMatch(v.s) IN
         IF ~m.matched THEN Num(0)
         ELSE IF ParseFloat(m.number) = NaN THEN Num(0)
         ELSE FloorTimes(ParseFloat(m.number), m.unit)

\* _parseSize of part_001: sizeStr.trim() of a non-string throws, NaN passes
ParseSizeNaive(v) ==
    IF ~Truthy(v) THEN Num(0)
    ELSE IF v.t # "string" THEN Throw
    ELSE LET m == SizeMatch(v.s) IN
         IF ~m.matched THEN Num(0)
         ELSE FloorTimes(ParseFloat(m.number), m.unit)

\* the size field of a record; part_000 writes the literal 0
ParseSize(v, raw) ==
    CASE v = "piratebaysrc" -> ParseSizeGuarded(raw)
      [] v = "part_001" -> ParseSizeNaive(raw)
      [] OTHER -> Num(0)

(***************************************************************************)
(* Dates.  A Date is invalid, the clock's reading, a civil date and time,  *)
(* or a number of milliseconds since the epoch.                            *)
(***************************************************************************)
InvalidDate == [t |-> "date", valid |-> FALSE]
ClockDate(c) == [t |-> "date", valid |-> TRUE, clock |-> c]
Civil(y, mo, d, h, mi) ==
    [t |-> "date", valid |-> TRUE, y |-> y, mo |-> mo, d |-> d, h |-> h, mi |-> mi]
EpochDate(ms) == [t |-> "date", valid |-> TRUE, ms |-> ms]

\* new Date().getFullYear(): the clock ticks twice a year
YearOf(c) == 2026 + (c \div 2)

\* new Date(`${y}-${m}-${d}`), the ISO date-only form (days 29 to 31 are not told
\* apart by month: engines differ there)
IsoDate(y, m, d) ==
    IF  /\ Len(y) = 4 /\ AllIn(y, Digits)
        /\ Len(m) = 2 /\ AllIn(m, Digits) /\ DigitsVal(m) \in 1..12
        /\ Len(d) = 2 /\ AllIn(d, Digits) /\ DigitsVal(d) \in 1..31
    THEN Civil(DigitsVal(y), DigitsVal(m), DigitsVal(d), 0, 0)
    ELSE InvalidDate

\* the time of day HH:MM
IsTime(s) ==
    /\ Len(s) = 5
    /\ s[3] = ":"
    /\ AllIn(<<s[1], s[2], s[4], s[5]>>, Digits)
    /\ DigitsVal(<<s[1], s[2]>>) \in 0..23
    /\ DigitsVal(<<s[4], s[5]>>) \in 0..59

\* new Date(`${year}-${m}-${d}T${time}`)
IsoDateTime(year, m, d, time) ==
    IF IsoDate(NumberToString(year), m, d).valid /\ IsTime(time)
    THEN Civil(year, DigitsVal(m), DigitsVal(d),
               DigitsVal(<<time[1], time[2]>>), DigitsVal(<<time[4], time[5]>>))
    ELSE InvalidDate

\* dateStr.trim().match(/^(\d{2})-(\d{2})\s+(.+)$/)
DateMatch(s) ==
    LET t == Trim(s)
        rest == TrimStart(Drop(t, 5))
    IN  IF  /\ Len(t) >= 7
            /\ AllIn(<<t[1], t[2], t[4], t[5]>>, Digits)
            /\ t[3] = "-"
            /\ t[6] \in Whitespace
            /\ rest # <<>>
            /\ \A i \in 1..Len(rest) : rest[i] # "\n"
        THEN [matched |-> TRUE, month |-> <<t[1], t[2]>>, day |-> <<t[4], t[5]>>,
              yearOrTime |-> rest]
        ELSE [matched |-> FALSE]

\* what a legacy (non-ISO) parser makes of "M-DD YYYY", "MM-DD YYYY" and
\* "MM-DD HH:MM": month, day, year; a missing year is 2001
LegacyParse(s) ==
    LET t == Trim(s)
        m == DateMatch(IF Len(t) >= 2 /\ t[2] = "-" THEN <<"0">> \o t ELSE t)
    IN
    IF ~m.matched THEN InvalidDate
    ELSE IF Len(m.yearOrTime) = 4 /\ AllIn(m.yearOrTime, Digits)
    THEN IsoDate(m.yearOrTime, m.month, m.day)
    ELSE IsoDateTime(2001, m.month, m.day, m.yearOrTime)

\* new Date(string): ISO "YYYY-MM-DD" everywhere, other shapes as the engine has it
GenericParse(e, s) ==
    IF Len(s) = 10 /\ s[5] = "-" /\ s[8] = "-"
    THEN IsoDate(SubSeq(s, 1, 4), SubSeq(s, 6, 7), SubSeq(s, 9, 10))
    ELSE IF e = "legacy" THEN LegacyParse(s) ELSE InvalidDate

\* new Date(value)
NewDate(e, v) ==
    CASE v.t = "string" -> GenericParse(e, v.s)
      [] v.t = "number" -> EpochDate(v.n)
      [] v.t = "null" -> EpochDate(0)
      [] v.t = "boolean" -> EpochDate(IF v.b THEN 1 ELSE 0)
      [] OTHER -> InvalidDate

\* the two shapes of _parseDate: the date found, or InvalidDate
ShapeParse(m, c) ==
    IF Len(m.yearOrTime) = 4 /\ AllIn(m.yearOrTime, Digits)
    THEN IsoDate(m.yearOrTime, m.month, m.day)
    ELSE IsoDateTime(YearOf(c), m.month, m.day, m.yearOrTime)

\* a fallback that never tries new Date(dateStr)
FallbackClock(e, s, c) == ClockDate(c)

\* the fallback: new Date(dateStr), or the clock
FallbackParse(e, s, c) ==
    IF GenericParse(e, s).valid THEN GenericParse(e, s) ELSE ClockDate(c)

\* a _parseDate that returns the shape parse without testing it
ParseDateUntested(e, v, c) ==
    IF ~Truthy(v) \/ v.t # "string" THEN ClockDate(c)
    ELSE LET m == DateMatch(v.s) IN
         IF m.matched THEN ShapeParse(m, c) ELSE FallbackParse(e, v.s, c)

\* _parseDate of index.js: an invalid shape parse falls through to the fallback
ParseDateGuarded(e, v, c) ==
    IF ~Truthy(v) \/ v.t # "string" THEN ClockDate(c)
    ELSE LET m == DateMatch(v.s) IN
         IF m.matched /\ ShapeParse(m, c).valid THEN ShapeParse(m, c)
         ELSE FallbackParse(e, v.s, c)

\* _parseDate of part_001: a non-string throws, a shape parse is returned as it is
ParseDateNaive(e, v, c) ==
    IF ~Truthy(v) THEN ClockDate(c)
    ELSE IF v.t # "string" THEN Throw
    ELSE LET m == DateMatch(v.s) IN
         IF m.matched THEN ShapeParse(m, c) ELSE FallbackParse(e, v.s, c)

\* the date field of a record; part_000 writes new Date(item.DateUploaded)
ParseDate(v, e, raw, c) ==
    CASE v = "piratebaysrc" -> ParseDateGuarded(e, raw, c)
      [] v = "part_001" -> ParseDateNaive(e, raw, c)
      [] OTHER -> NewDate(e, raw)

(***************************************************************************)
(* Normalization of the response array.                                    *)
(***************************************************************************)
\* slice(0, 30)
Limit == 30

\* item.<field>: undefined on a primitive; the caller has excluded null
Field(item, f) == IF item.t = "object" THEN item[f] ELSE Undef

\* the positions where /btih:([A-Fa-f0-9]+)/ can match
BtihAt(s) ==
    { i \in 1..Len(s) :
        /\ i + 5 <= Len(s)
        /\ SubSeq(s, i, i + 4) = <<"b", "t", "i", "h", ":">>
        /\ s[i + 5] \in HexChars }

Min(S) == CHOOSE x \in S : \A y \in S : x <= y

\* item.Magnet?.match(/btih:([A-Fa-f0-9]+)/)?.[1] || ""
HashOf(magnet) ==
    CASE magnet.t \in {"undefined", "null"} -> Str(<<>>)
      [] magnet.t = "string" ->
            IF BtihAt(magnet.s) = {} THEN Str(<<>>)
            ELSE LET from == Drop(magnet.s, Min(BtihAt(magnet.s)) + 4) IN
                 Str(Take(from, PrefixLen(from, HexChars)))
      [] OTHER -> Throw

\* Number(x || 0)
NumberOrZero(x) == ToNumber(IF Truthy(x) THEN x ELSE Num(0))

\* the downloads field: the literal 0, but Number(item.Downloads || 0) in part_000
DownloadsOf(v, item) ==
    IF v = "part_000" THEN NumberOrZero(Field(item, "Downloads")) ELSE Num(0)

\* the object literal of the map callback: the record, or Throw
BuildRecord(v, e, item, c) ==
    IF item.t \in {"null", "undefined"} THEN Throw
    ELSE LET hash == HashOf(Field(item, "Magnet"))
             size == ParseSize(v, Field(item, "Size"))
             date == ParseDate(v, e, Field(item, "DateUploaded"), c)
         IN  IF Throw \in {hash, size, date} THEN Throw
             ELSE [ title |-> Field(item, "Name"),
                    link |-> Field(item, "Magnet"),
                    hash |-> hash,
                    seeders |-> NumberOrZero(Field(item, "Seeders")),
                    leechers |-> NumberOrZero(Field(item, "Leechers")),
                    downloads |-> DownloadsOf(v, item),
                    size |-> size,
                    date |-> date,
                    accuracy |-> "medium",
                    type |-> "alt" ]

\* the catch block of the map callback of index.js: console.warn reads item.Name,
\* which throws again when the item is null; otherwise the callback returns null
CatchItem(item) == IF item.t \in {"null", "undefined"} THEN Throw ELSE Null

\* the map callback: a record, null (index.js, item failed) or Throw
MapItem(v, e, item, c) ==
    LET built == BuildRecord(v, e, item, c) IN
    IF v = "piratebaysrc" /\ built = Throw THEN CatchItem(item) ELSE built

\* .filter(item => item !== null), present in index.js only
FilterNull(v, mapped) ==
    IF v = "piratebaysrc" THEN SelectSeq(mapped, LAMBDA r : r # Null) ELSE mapped

\* a pipeline without .slice(0, 30)
TruncateNever(v, records) == records

\* .slice(0, 30), absent from part_000
Truncate(v, records) == IF v = "part_000" THEN records ELSE Take(records, Limit)

Pending == [k |-> "pending"]
Resolved(value) == [k |-> "resolved", v |-> value]
Rejected == [k |-> "rejected"]

\* data.map(...).filter(...).slice(0, 30): the promise of _search settles with it
Normalize(v, e, items, c) ==
    LET mapped == [i \in 1..Len(items) |-> MapItem(v, e, items[i], c)] IN
    IF \E i \in 1..Len(mapped) : mapped[i] = Throw
    THEN Rejected
    ELSE Resolved(Arr(Truncate(v, FilterNull(v, mapped))))

\* a bad response answered with [] by every variant
OnBadResponseLenient(v) == Resolved(Arr(<<>>))

\* if (!res.ok) and if (!Array.isArray(data)): return [] in part_000, throw elsewhere
OnBadResponse(v) == IF v = "part_000" THEN Resolved(Arr(<<>>)) ELSE Rejected

\* fetch(url) rejected: index.js rethrows it, the others never catch it
OnFetchError(v) == Rejected

\* res.json() rejected
OnJsonError(v) == Rejected

\* a validate without its catch
OnProbeErrorRethrown == Rejected

\* the catch of validate
OnProbeError == Resolved(Bool(FALSE))

\* if (!titles?.length) return []
HasTitles(r) == r.titles.t = "array" /\ Len(r.titles.items) > 0

\* the path validate appends to base
ProbePath(v) ==
    IF v = "part_000" THEN <<"o", "n", "e", "%", "2", "0", "p", "i", "e", "c", "e">>
    ELSE <<"t", "e", "s", "t">>

(***************************************************************************)
(* Inputs: requests, raw items and response bodies.                        *)
(***************************************************************************)
Variants == {"piratebaysrc", "part_000", "part_001"}
Engines == {"strict", "legacy"}

SeqsUpTo(S, n) == UNION { [1..k -> S] : k \in 0..n }

TitleChars == {"a", " ", "-", "!"}

\* "Attack on Titan: Final Season!"
ExampleTitle ==
    <<"A", "t", "t", "a", "c", "k", " ", "o", "n", " ", "T", "i", "t", "a", "n", ":", " ",
        "F", "i", "n", "a", "l", " ", "S", "e", "a", "s", "o", "n", "!">>

\* "Attack on Titan Final Season"
ExampleSanitized ==
    <<"A", "t", "t", "a", "c", "k", " ", "o", "n", " ", "T", "i", "t", "a", "n", " ", "F",
        "i", "n", "a", "l", " ", "S", "e", "a", "s", "o", "n">>

Titles == SeqsUpTo(TitleChars, MaxTitleLen) \cup {ExampleTitle}

MediaTypes == {Undef, Str(<<"m", "o", "v", "i", "e">>), Str(<<"t", "v">>), Str(<<"a", "n",
    "i", "m", "e">>), Str(<<"o", "v", "a">>)}

Request(titles, episode, season, mediaType, year) ==
    [titles |-> titles, episode |-> episode, season |-> season,
     mediaType |-> mediaType, year |-> year]

\* requests that differ in the title and in every optional field
QueryRequests ==
    { Request(Arr(<<t>>), ep, se, mt, yr) :
        t \in Titles, ep \in {Undef, Num(5), Num(12)}, se \in {Undef, Num(2)},
        mt \in MediaTypes, yr \in {Undef, Num(1999)} }

\* requests without titles, with one and with two
PlainRequests ==
    { Request(ts, Undef, Undef, Undef, Undef) :
        ts \in {Undef, Arr(<<>>), Arr(<<<<"a">>>>), Arr(<<<<"a", "!">>, <<"-">>>>)} }

Hex40 == [i \in 1..40 |-> IF i % 2 = 1 THEN "A" ELSE "9"]

\* sample strings, named by what they hold
\* "magnet:?xt=urn:btih:"
GoodMagnetHead ==
    <<"m", "a", "g", "n", "e", "t", ":", "?", "x", "t", "=", "u", "r", "n", ":",
    "b", "t", "i", "h", ":">>
\* "&dn=a"
GoodMagnetTail == <<"&", "d", "n", "=", "a">>
\* "btih:Ab3&dn=c": the hex run is 3 characters long
ShortMagnet == <<"b", "t", "i", "h", ":", "A", "b", "3", "&", "d", "n", "=", "c">>
\* "magnet:btih:zz": no hex digit follows btih:
NoHashMagnet == <<"m", "a", "g", "n", "e", "t", ":", "b", "t", "i", "h", ":", "z", "z">>
\* "1.5 KiB"
SizeKiB == <<"1", ".", "5", " ", "K", "i", "B">>
\* " 2MB "
SizeMB == <<" ", "2", "M", "B", " ">>
\* "5 XB"
SizeUnknownUnit == <<"5", " ", "X", "B">>
\* "bad": no numeric prefix
SizeBad == <<"b", "a", "d">>
\* ".B": the shape matches, the number does not parse
SizeDot == <<".", "B">>
\* "5 valueOf": the unit names a property of Object.prototype
SizeInherited == <<"5", " ", "v", "a", "l", "u", "e", "O", "f">>
\* "06-13 2012"
DateYear == <<"0", "6", "-", "1", "3", " ", "2", "0", "1", "2">>
\* "01-01 05:50"
DateTime == <<"0", "1", "-", "0", "1", " ", "0", "5", ":", "5", "0">>
\* "2020-05-17"
DateIso == <<"2", "0", "2", "0", "-", "0", "5", "-", "1", "7">>
\* "13-45 2012": the MM-DD shape with no such month
DateBadMonth == <<"1", "3", "-", "4", "5", " ", "2", "0", "1", "2">>
\* "01-01 xx": the MM-DD shape with no time of day
DateBadTime == <<"0", "1", "-", "0", "1", " ", "x", "x">>
\* "garbage"
DateGarbage == <<"g", "a", "r", "b", "a", "g", "e">>
\* "6-13 2012": not the MM-DD shape of _parseDate; a legacy parser reads it
DateOneDigit == <<"6", "-", "1", "3", " ", "2", "0", "1", "2">>
\* "abc"
NotANumber == <<"a", "b", "c">>

Object(name, magnet, seeders, leechers, downloads, size, date) ==
    [t |-> "object", Name |-> name, Magnet |-> magnet, Seeders |-> seeders,
     Leechers |-> leechers, Downloads |-> downloads, Size |-> size,
     DateUploaded |-> date]

\* a well-formed item: "magnet:?xt=urn:btih:<40 hex>&dn=a", "1.5 KiB", "06-13 2012"
GoodItem(name) ==
    Object(Str(name), Str(GoodMagnetHead \o Hex40 \o GoodMagnetTail),
           Num(10), Str(<<"3">>), Undef, Str(SizeKiB), Str(DateYear))

\* raw items as the API may send them, malformed in one way or another
SampleItems ==
    { GoodItem(<<"a">>),
      Null,
      Num(7),
      Object(Undef, Undef, Undef, Undef, Undef, Undef, Undef),
      Object(Str(<<"b">>), Num(7), Num(1), Num(1), Undef, Undef, Undef),
      Object(Str(<<"c">>), Str(ShortMagnet), Str(NotANumber), Num(-5), Undef,
             Str(SizeUnknownUnit), Str(DateTime)),
      Object(Str(<<"d">>), Str(NoHashMagnet), Str(<<"3">>), Num(0), Undef,
             Str(SizeBad), Str(DateBadMonth)),
      Object(Str(<<"e">>), Null, Num(2), Num(2), Undef, Num(5), Num(5)),
      Object(Str(<<"f">>), Undef, Num(2), Num(2), Undef, Str(SizeDot), Str(DateBadTime)),
      Object(Str(<<"g">>), Undef, Num(2), Num(2), Undef,
             Str(SizeInherited), Str(DateGarbage)),
      Object(Str(<<"h">>), Undef, Num(2), Num(2), Num(4), Str(SizeMB), Str(DateIso)),
      Object(Str(<<"i">>), Undef, Num(2), Num(2), Str(NotANumber),
             Undef, Str(DateOneDigit)) }

\* k well-formed items named "1" .. "k"
Filler(k) == [i \in 1..k |-> GoodItem(NumberToString(i))]

\* response bodies: an array of up to p sample items followed by j fillers, j in J
ArrayBodies(p, J) ==
    { Arr(pre \o Filler(j)) : pre \in SeqsUpTo(SampleItems, p), j \in J }

\* decoded bodies that are no array
OtherBodies == {Null, [t |-> "object"]}

(***************************************************************************)
(* The call as a state machine.                                            *)
(***************************************************************************)
NoWire == [fetch |-> "none", json |-> "none"]

Init ==
    /\ variant \in Variants
    /\ engine \in Engines
    /\ now = 0
    /\ pc = "idle"
    /\ entry = "none"
    /\ req = Undef
    /\ query = <<>>
    /\ url = <<>>
    /\ fetchCalls = 0
    /\ wire = NoWire
    /\ data = Undef
    /\ calledAt = 0
    /\ outcome = Pending
    /\ prev = Undef

\* a single that fetches before it looks at titles
EnterFetchFirst(e, r) ==
    /\ entry' = e
    /\ req' = r
    /\ fetchCalls' = fetchCalls + 1
    /\ IF HasTitles(r)
       THEN /\ query' = BuildQuery(variant, r.titles.items[1], r)
            /\ url' = Base \o EncodeURIComponent(query')
            /\ pc' = "fetching"
            /\ outcome' = Pending
       ELSE /\ pc' = "done"
            /\ outcome' = Resolved(Arr(<<>>))
            /\ UNCHANGED <<query, url>>
    /\ UNCHANGED <<variant, engine, now, wire, data, calledAt, prev>>

\* single(options): the precondition, then _search up to its first await
Enter(e, r) ==
    /\ entry' = e
    /\ req' = r
    /\ IF HasTitles(r)
       THEN /\ query' = BuildQuery(variant, r.titles.items[1], r)
            /\ url' = Base \o EncodeURIComponent(query')
            /\ fetchCalls' = fetchCalls + 1
            /\ pc' = "fetching"
            /\ outcome' = Pending
       ELSE /\ pc' = "done"
            /\ outcome' = Resolved(Arr(<<>>))
            /\ UNCHANGED <<query, url, fetchCalls>>
    /\ UNCHANGED <<variant, engine, now, wire, data, calledAt, prev>>

\* single(options), for a request of the set R
Single(R) == pc = "idle" /\ \E r \in R : Enter("single", r)

\* batch(options) returns this.single(options)
Batch(R) == pc = "idle" /\ \E r \in R : Enter("batch", r)

\* movie(options) returns this.single(options)
Movie(R) == pc = "idle" /\ \E r \in R : Enter("movie", r)

\* await fetch(url) throws a network error
FetchThrows ==
    /\ pc = "fetching"
    /\ wire' = [wire EXCEPT !.fetch = "threw"]
    /\ outcome' = OnFetchError(variant)
    /\ pc' = "done"
    /\ UNCHANGED <<variant, engine, now, entry, req, query, url, fetchCalls, data,
                   calledAt, prev>>

\* await fetch(url) returns a response whose ok is in OK; if (!res.ok) ...
FetchReturns(OK) ==
    /\ pc = "fetching"
    /\ \E ok \in OK :
        /\ wire' = [wire EXCEPT !.fetch = IF ok THEN "ok" ELSE "notok"]
        /\ IF ok
           THEN pc' = "decoding" /\ outcome' = outcome
           ELSE pc' = "done" /\ outcome' = OnBadResponse(variant)
    /\ UNCHANGED <<variant, engine, now, entry, req, query, url, fetchCalls, data,
                   calledAt, prev>>

\* await res.json() throws: the body is no JSON
JsonThrows ==
    /\ pc = "decoding"
    /\ wire' = [wire EXCEPT !.json = "threw"]
    /\ outcome' = OnJsonError(variant)
    /\ pc' = "done"
    /\ UNCHANGED <<variant, engine, now, entry, req, query, url, fetchCalls, data,
                   calledAt, prev>>

\* await res.json() returns a body of the set B; the rest of _search runs
\* synchronously
JsonReturns(B) ==
    /\ pc = "decoding"
    /\ \E body \in B :
        /\ wire' = [wire EXCEPT !.json = IF body.t = "array" THEN "array" ELSE "other"]
        /\ data' = body
        /\ outcome' = IF body.t = "array"
                      THEN Normalize(variant, engine, body.items, now)
                      ELSE OnBadResponse(variant)
    /\ calledAt' = now
    /\ pc' = "done"
    /\ UNCHANGED <<variant, engine, now, entry, req, query, url, fetchCalls, prev>>

\* validate() up to its await
Validate ==
    /\ pc = "idle"
    /\ entry' = "validate"
    /\ url' = Base \o ProbePath(variant)
    /\ fetchCalls' = fetchCalls + 1
    /\ pc' = "probing"
    /\ outcome' = Pending
    /\ UNCHANGED <<variant, engine, now, req, query, wire, data, calledAt, prev>>

\* the probe's fetch throws: the catch returns false
ProbeThrows ==
    /\ pc = "probing"
    /\ wire' = [wire EXCEPT !.fetch = "threw"]
    /\ outcome' = OnProbeError
    /\ pc' = "done"
    /\ UNCHANGED <<variant, engine, now, entry, req, query, url, fetchCalls, data,
                   calledAt, prev>>

\* the probe's fetch returns: return res.ok
ProbeReturns ==
    /\ pc = "probing"
    /\ \E ok \in BOOLEAN :
        /\ wire' = [wire EXCEPT !.fetch = IF ok THEN "ok" ELSE "notok"]
        /\ outcome' = Resolved(Bool(ok))
    /\ pc' = "done"
    /\ UNCHANGED <<variant, engine, now, entry, req, query, url, fetchCalls, data,
                   calledAt, prev>>

\* the clock advances
Tick ==
    /\ now < MaxNow
    /\ now' = now + 1
    /\ UNCHANGED <<variant, engine, pc, entry, req, query, url, fetchCalls, wire,
                   data, calledAt, outcome, prev>>

\* the caller takes the settled promise and is free to call again; nothing of the
\* call survives in the adapter
Return ==
    /\ pc = "done"
    /\ prev = Undef
    /\ prev' = [data |-> data, calledAt |-> calledAt, wire |-> wire,
                outcome |-> outcome]
    /\ pc' = "idle"
    /\ entry' = "none"
    /\ req' = Undef
    /\ query' = <<>>
    /\ url' = <<>>
    /\ fetchCalls' = 0
    /\ wire' = NoWire
    /\ data' = Undef
    /\ calledAt' = 0
    /\ outcome' = Pending
    /\ UNCHANGED <<variant, engine, now>>

\* bodies of a few items, and bodies that are no array
MainBodies == ArrayBodies(MaxPrefix, 0..1) \cup OtherBodies

\* bodies with no filler, and bodies around the limit of 30
LongBodies == ArrayBodies(1, {0} \cup ((Limit - 2)..MaxFill))

ShortBodies == ArrayBodies(1, 0..1)

\* one call of any entry point, against every transport behaviour
Next ==
    \/ Single(PlainRequests)
    \/ Batch(PlainRequests)
    \/ Movie(PlainRequests)
    \/ FetchThrows
    \/ FetchReturns(BOOLEAN)
    \/ JsonThrows
    \/ JsonReturns(MainBodies)
    \/ Validate
    \/ ProbeThrows
    \/ ProbeReturns
    \/ Tick

Spec == Init /\ [][Next]_vars

\* one call, with every shape of request, up to its fetch
NextQuery ==
    \/ Single(QueryRequests)
    \/ Batch(QueryRequests)
    \/ Movie(QueryRequests)

SpecQuery == Init /\ [][NextQuery]_vars

\* one call answered with arrays shorter and longer than the limit
NextLong ==
    \/ Single(PlainRequests)
    \/ Batch(PlainRequests)
    \/ Movie(PlainRequests)
    \/ FetchReturns({TRUE})
    \/ JsonReturns(LongBodies)

SpecLong == Init /\ [][NextLong]_vars

\* two calls in a row while the clock runs
NextTwice ==
    \/ Single(PlainRequests)
    \/ FetchReturns({TRUE})
    \/ JsonReturns(ShortBodies)
    \/ Tick
    \/ Return

SpecTwice == Init /\ [][NextTwice]_vars

(***************************************************************************)
(* What the claims speak of.                                               *)
(***************************************************************************)
Done == pc = "done"

IsSearch == entry \in {"single", "batch", "movie"}

\* the transport failed: network exception, non-2xx, body decoding, body no array
TransportFailed ==
    \/ wire.fetch \in {"threw", "notok"}
    \/ wire.json \in {"threw", "other"}

\* the call got an array and its promise resolved
Delivered == Done /\ wire.json = "array" /\ outcome.k = "resolved"

\* the items whose record can be built, in the order of the response
Buildable(items) ==
    SelectSeq(items, LAMBDA it : BuildRecord(variant, engine, it, calledAt) # Throw)

\* the records of the buildable items
Survivors(items) ==
    LET ok == Buildable(items) IN
    [i \in 1..Len(ok) |-> BuildRecord(variant, engine, ok[i], calledAt)]

Present(x) == x # Undef

(***************************************************************************)
(* C1  Transport failures.                                                 *)
(***************************************************************************)
\* C1 as stated: for a request with titles, every transport failure (fetch throws,
\* non-2xx status, body decoding throws, body not an array) resolves single, batch
\* and movie to an empty sequence and never rejects.
C1_AlwaysEmpty ==
    (Done /\ IsSearch /\ HasTitles(req) /\ TransportFailed)
        => outcome = Resolved(Arr(<<>>))

\* C1 amended: a fetch exception and a decoding exception reject in every variant;
\* a non-2xx status and a non-array body resolve to the empty sequence in part_000
\* and reject in index.js and part_001.
C1_TransportPolicy ==
    (Done /\ IsSearch /\ HasTitles(req) /\ TransportFailed)
        => outcome = IF /\ variant = "part_000"
                        /\ (wire.fetch = "notok" \/ wire.json = "other")
                     THEN Resolved(Arr(<<>>))
                     ELSE Rejected

C1_Witness ==
    /\ Done /\ entry = "movie" /\ HasTitles(req)
    /\ variant = "part_000" /\ wire.fetch = "notok"
    /\ outcome = Resolved(Arr(<<>>))

(***************************************************************************)
(* C2  Per-item isolation.                                                 *)
(***************************************************************************)
\* C2 as stated, for index.js (the variant with the per-item try/catch): whenever an
\* ok response carries an array, the call resolves, and its result is the records of
\* the items that could be built, in their order, each failing item dropped.
C2_PerItemIsolation ==
    (Done /\ variant = "piratebaysrc" /\ wire.json = "array")
        => outcome = Resolved(Arr(Take(Survivors(data.items), Limit)))

(***************************************************************************)
(* C3  Truncation.                                                         *)
(***************************************************************************)
\* C3 as stated: every returned sequence has at most 30 records and is the first 30
\* of the records that survived the per-item filtering, in response order.
C3_AtMostThirty ==
    Delivered
        => /\ Len(outcome.v.items) <= Limit
           /\ outcome.v.items = Take(Survivors(data.items), Limit)

\* C3 amended: that holds in index.js and part_001; part_000 does not truncate and
\* returns one record for every raw item.
C3_Truncation ==
    Delivered
        => IF variant = "part_000"
           THEN outcome.v.items = Survivors(data.items)
           ELSE /\ Len(outcome.v.items) <= Limit
                /\ outcome.v.items = Take(Survivors(data.items), Limit)

C3_Witness ==
    /\ Delivered /\ variant = "piratebaysrc"
    /\ Len(Survivors(data.items)) > Limit
    /\ Len(Buildable(data.items)) < Len(data.items)
    /\ Len(outcome.v.items) = Limit
    /\ outcome.v.items[Limit].title = Str(<<"3", "0">>)

(***************************************************************************)
(* C4  No titles, no fetch.                                                *)
(***************************************************************************)
\* C4: when the title list is empty or absent, single, batch and movie resolve to
\* the empty sequence and fetch is not invoked during the call.
C4_NoTitlesNoFetch ==
    (IsSearch /\ ~HasTitles(req))
        => Done /\ outcome = Resolved(Arr(<<>>)) /\ fetchCalls = 0

C4_Witness ==
    /\ Done /\ entry = "batch" /\ req.titles = Arr(<<>>)
    /\ outcome = Resolved(Arr(<<>>)) /\ fetchCalls = 0

(***************************************************************************)
(* C8  Health check.                                                       *)
(***************************************************************************)
\* C8: validate() always resolves to a boolean: true exactly when the probe's
\* response is ok, false on a non-2xx response and when fetch throws.
C8_Validate ==
    (Done /\ entry = "validate")
        => /\ wire.fetch \in {"ok", "notok", "threw"}
           /\ outcome = Resolved(Bool(wire.fetch = "ok"))

C8_Witness ==
    /\ Done /\ entry = "validate" /\ wire.fetch = "threw"
    /\ outcome = Resolved(Bool(FALSE))

(***************************************************************************)
(* C5  The shape of an output record.                                      *)
(***************************************************************************)
RecordFields ==
    {"title", "link", "hash", "seeders", "leechers", "downloads", "size", "date",
     "accuracy", "type"}

NonNegative(x) == x.t = "number" /\ x.n >= 0

NumberOrNaN(x) == x.t \in {"number", "nan"}

\* C5 as stated: every record has the ten fields; title and link are strings, hash
\* is 40 hex characters or empty, seeders, leechers, downloads and size are
\* non-negative integers, date is a valid timestamp, accuracy is "medium", type "alt".
C5_WellTyped ==
    Delivered =>
        \A i \in 1..Len(outcome.v.items) :
            LET r == outcome.v.items[i] IN
            /\ DOMAIN r = RecordFields
            /\ r.title.t = "string"
            /\ r.link.t = "string"
            /\ r.hash.t = "string"
            /\ r.hash.s = <<>> \/ (Len(r.hash.s) = 40 /\ AllIn(r.hash.s, HexChars))
            /\ NonNegative(r.seeders) /\ NonNegative(r.leechers)
            /\ NonNegative(r.downloads) /\ NonNegative(r.size)
            /\ r.date.t = "date" /\ r.date.valid
            /\ r.accuracy = "medium" /\ r.type = "alt"

\* C5 amended: every record has the ten fields, accuracy "medium" and type "alt";
\* hash is a string of hex digits of any length, possibly empty; seeders and leechers
\* are numbers of any sign or NaN; downloads is 0 (in part_000 a number or NaN);
\* title and link are whatever the raw item held.  In index.js the date is valid and
\* size is a non-negative integer, or NaN for a unit that names an inherited
\* property; in part_001 size may be NaN and the date invalid; in part_000 size is 0
\* and the date may be invalid.
C5_RecordShape ==
    Delivered =>
        \A i \in 1..Len(outcome.v.items) :
            LET r == outcome.v.items[i] IN
            /\ DOMAIN r = RecordFields
            /\ r.accuracy = "medium" /\ r.type = "alt"
            /\ r.hash.t = "string" /\ AllIn(r.hash.s, HexChars)
            /\ NumberOrNaN(r.seeders) /\ NumberOrNaN(r.leechers)
            /\ IF variant = "part_000"
               THEN NumberOrNaN(r.downloads) /\ r.size = Num(0)
               ELSE r.downloads = Num(0) /\ (NonNegative(r.size) \/ r.size = NaN)
            /\ r.date.t = "date"
            /\ variant = "piratebaysrc" =>
                /\ r.date.valid
                /\ r.size = NaN =>
                    \E j \in 1..Len(data.items) :
                        Field(data.items[j], "Size") = Str(SizeInherited)

C5_Witness ==
    /\ Delivered /\ variant = "piratebaysrc"
    /\ \E i \in 1..Len(outcome.v.items) :
        LET r == outcome.v.items[i] IN
        /\ r.seeders = NaN /\ r.leechers = Num(-5)
        /\ r.hash = Str(<<"A", "b", "3">>)
    /\ \E i \in 1..Len(outcome.v.items) :
        outcome.v.items[i].title = Undef /\ outcome.v.items[i].link = Undef

(***************************************************************************)
(* C6  Query construction.                                                 *)
(***************************************************************************)
TwoDigits(n) == IF n < 10 THEN <<"0", DigitChar(n)>> ELSE NumberToString(n)

\* the suffix for episode alone: space and the episode on two digits
EpisodeOnly(r) ==
    IF Present(r.episode) THEN <<" ">> \o TwoDigits(r.episode.n) ELSE <<>>

\* the suffix as the claim words it
ClaimSuffix(r) ==
    CASE r.mediaType = Str(<<"m", "o", "v", "i", "e">>) ->
            IF Present(r.year) THEN <<" ">> \o NumberToString(r.year.n) ELSE <<>>
      [] r.mediaType = Str(<<"t", "v">>) ->
            IF Present(r.episode)
            THEN <<" ", "S">>
                    \o TwoDigits(IF Present(r.season) THEN r.season.n ELSE 1)
                    \o <<"E">> \o TwoDigits(r.episode.n)
            ELSE <<>>
      [] OTHER -> EpisodeOnly(r)

\* C6 as stated: the query passed to fetch is the sanitized first title followed by
\* the suffix mediaType selects (movie: year; tv: SxxEyy with season 1 by default;
\* anything else: the episode).
C6_SuffixByMediaType ==
    (pc = "fetching" /\ IsSearch)
        => query = Sanitize(req.titles.items[1]) \o ClaimSuffix(req)

\* C6 amended: that is the query of part_000; index.js and part_001 ignore
\* mediaType, season and year and append the episode alone, for every mediaType.
C6_Query ==
    (pc = "fetching" /\ IsSearch)
        => query = Sanitize(req.titles.items[1])
                    \o IF variant = "part_000" THEN ClaimSuffix(req)
                       ELSE EpisodeOnly(req)

C6_Witness ==
    /\ pc = "fetching" /\ entry = "single" /\ variant = "part_000"
    /\ req.titles.items[1] = <<"a", "!">>
    /\ req.mediaType = Str(<<"t", "v">>)
    /\ req.season = Undef /\ req.episode = Num(5)
    /\ query = <<"a", " ", "S", "0", "1", "E", "0", "5">>

(***************************************************************************)
(* C9  Sanitization of the title.                                          *)
(***************************************************************************)
Allowed == WordChars \cup Whitespace \cup {"-"}

Trimmed(s) == s = <<>> \/ (s[1] \notin Whitespace /\ s[Len(s)] \notin Whitespace)

\* without episode and year no variant appends a suffix: the query is the
\* sanitized title
Bare(r) == r.episode = Undef /\ r.year = Undef

\* "Attack on Titan  Final Season": the colon became a second space
ExampleTwoSpaces ==
    <<"A", "t", "t", "a", "c", "k", " ", "o", "n", " ", "T", "i", "t", "a", "n", " ", " ",
        "F", "i", "n", "a", "l", " ", "S", "e", "a", "s", "o", "n">>

\* C9 as stated: the sanitized title holds only word characters, whitespace and
\* hyphens, has no whitespace at either end, and is collapsed, so that
\* "Attack on Titan: Final Season!" becomes "Attack on Titan Final Season".
C9_Collapsed ==
    (pc = "fetching" /\ Bare(req))
        => /\ AllIn(query, Allowed)
           /\ Trimmed(query)
           /\ req.titles.items[1] = ExampleTitle => query = ExampleSanitized

\* C9 amended: the sanitized title is the title with every other character turned
\* into one space, character for character, less the whitespace at both ends:
\* nothing is collapsed, and the example becomes "Attack on Titan  Final Season".
C9_Sanitized ==
    (pc = "fetching" /\ Bare(req))
        => LET title == req.titles.items[1]
               rep == [i \in 1..Len(title) |->
                          IF title[i] \in Allowed THEN title[i] ELSE " "]
           IN  /\ AllIn(query, Allowed)
               /\ Trimmed(query)
               /\ \E k \in 0..Len(title) :
                    /\ k + Len(query) <= Len(title)
                    /\ \A i \in 1..Len(title) :
                        IF i > k /\ i <= k + Len(query)
                        THEN query[i - k] = rep[i]
                        ELSE rep[i] \in Whitespace
               /\ title = ExampleTitle => query = ExampleTwoSpaces

C9_Witness ==
    /\ pc = "fetching" /\ Bare(req)
    /\ req.titles.items[1] = ExampleTitle
    /\ query = ExampleTwoSpaces

(***************************************************************************)
(* C7  Field-level defaults.                                               *)
(***************************************************************************)
\* sizes that are absent, no string, or malformed
MalformedSizes == {Undef, Num(5), Str(SizeBad), Str(SizeDot)}

\* dates that are absent, no string, or fail every parse attempt of the engine
UnparseableDates ==
    {Undef, Num(5), Str(DateBadMonth), Str(DateBadTime), Str(DateGarbage)}
        \cup (IF engine = "strict" THEN {Str(DateOneDigit)} ELSE {})

\* magnets that are absent or hold no btih hex run
HashlessMagnets == {Undef, Str(NoHashMagnet)}

\* an object whose Magnet is absent or a string
PlainItem(item) ==
    /\ item.t = "object"
    /\ item.Magnet \in {Undef, Null} \/ item.Magnet.t = "string"

\* r is the record of the item, with the defaults where the item is malformed
Defaulted(item, r) ==
    /\ r \notin {Throw, Null}
    /\ item.Size \in MalformedSizes => r.size = Num(0)
    /\ item.DateUploaded \in UnparseableDates => r.date = ClockDate(calledAt)
    /\ item.Magnet \in HashlessMagnets => r.hash = Str(<<>>)

Twice ==
    /\ prev # Undef
    /\ Done
    /\ wire.json = "array" /\ prev.wire.json = "array"
    /\ prev.data = data

BlankDate(r) == [r EXCEPT !.date = InvalidDate]

\* C10 as stated: the two runs give identical outputs, field by field, the date
\* of absent, unparseable and year-less DateUploaded included.
C10_Pure == Twice => outcome = prev.outcome

\* C10 amended: the two runs settle alike and agree in every field but the date.
\* The date agrees too for "MM-DD YYYY" and for what the generic parser accepts;
\* for an absent, non-string or unparseable DateUploaded index.js and part_001
\* give each run its own current time, and for "MM-DD HH:MM" the year current at
\* each run.  part_000 agrees in every field.
C10_PureButDate ==
    Twice =>
        /\ outcome.k = prev.outcome.k
        /\ outcome.k = "resolved" =>
            LET first == prev.outcome.v.items
                second == outcome.v.items
                raw == Buildable(data.items)
            IN  /\ Len(first) = Len(second)
                /\ Len(second) = Len(raw)
                /\ \A i \in 1..Len(second) :
                    LET d == Field(raw[i], "DateUploaded") IN
                    /\ BlankDate(first[i]) = BlankDate(second[i])
                    /\ \/ first[i].date = second[i].date
                       \/ /\ variant # "part_000"
                          /\ d \notin {Str(DateYear), Str(DateIso)}
                          /\ first[i].date = ClockDate(prev.calledAt)
                          /\ second[i].date = ClockDate(calledAt)
                       \/ /\ variant # "part_000"
                          /\ d = Str(DateTime)
                          /\ first[i].date = Civil(YearOf(prev.calledAt), 1, 1, 5, 50)
                          /\ second[i].date = Civil(YearOf(calledAt), 1, 1, 5, 50)

C10_Witness ==
    /\ Twice /\ outcome.k = "resolved" /\ variant = "piratebaysrc"
    /\ Len(outcome.v.items) = 1
    /\ prev.outcome.v.items[1].date = Civil(2026, 1, 1, 5, 50)
    /\ outcome.v.items[1].date = Civil(2027, 1, 1, 5, 50)

====
